---- MODULE Spec2Model ----
(***************************************************************************)
(* Model of altmod's Automodel_optimal_restraints                          *)
(* (src/altmod/automodel_optimal_restraints.py): the target-derived build  *)
(* (homcsr), the target/template analysis that writes one parameter table  *)
(* per template, and the template file lookup.                             *)
(*                                                                         *)
(* Strings indexed by the code (aligned sequences) are sequences of        *)
(* one-letter strings.  Distances are integers in a fixed-point unit.      *)
(* The identity threshold is held in hundredths (0.99 is 99); the code's   *)
(* float comparison  identities/float(matches) < threshold  is then the    *)
(* integer comparison  identities*100 < threshold*matches  (both sides of  *)
(* the float comparison are correctly rounded values of the two rationals, *)
(* which differ by far more than one rounding step at these sizes).        *)
(***************************************************************************)
EXTENDS Integers, Sequences, FiniteSets, TLC

VARIABLES self, inp, disk, pc, loc, log, error

vars == <<self, inp, disk, pc, loc, log, error>>

-----------------------------------------------------------------------------
(* Bounds of the model. *)

\* longest model sequence, target sequence and alignment (in columns) drawn
MaxLen == 2
\* largest number of templates (len(self.knowns))
MaxTem == 2
\* largest number of directories in env.io.atom_files_directory
MaxDirs == 2

-----------------------------------------------------------------------------
(* Values shared by the definitions below. *)

None == "None"

\* None where the other values are tuples or records
NoneObj == <<>>
Gap == "-"
Codes == {"A", "G"}

\* the atom type labels of the model's atoms: the five main-chain labels of
\* main_chain_atoms and two side-chain labels
AtomTypes == <<"N", "CA", "C", "O", "OXT", "CB", "CG">>

NTypes == Len(AtomTypes)

main_chain_atoms == {"CA", "N", "C", "O", "OXT"}

\* the thresholds a caller passes to set_target_structure, in hundredths
Thresholds == {50, 99}

Min(a, b) == IF a < b THEN a ELSE b

RECURSIVE ISqrtFrom(_, _)
ISqrtFrom(n, r) == IF (r + 1) * (r + 1) > n THEN r ELSE ISqrtFrom(n, r + 1)

\* integer square root (the distance unit is the rounding step)
ISqrt(n) == ISqrtFrom(n, 0)

\* "".join(r.code for r in residues) of an alignment row: the row less its gaps
RECURSIVE Ungap(_)
Ungap(row) ==
    IF row = <<>> THEN <<>>
    ELSE IF Head(row) = Gap THEN Ungap(Tail(row))
    ELSE <<Head(row)>> \o Ungap(Tail(row))

\* Residue.index of the residue at column k of a row: residues are numbered
\* from 1 in sequence order
ResidueIndex(row, k) == Cardinality({j \in 1..k : row[j] # Gap})

-----------------------------------------------------------------------------
(* The model's atoms: the initial model file lists, residue by residue,    *)
(* one atom of every type; serial numbers run from 1.                      *)

atm_serial(res, k) == (res - 1) * NTypes + k

atm_to_res_dict(atm) == ((atm - 1) \div NTypes) + 1

atm_type_dict(atm) == AtomTypes[((atm - 1) % NTypes) + 1]

TypeIndex(type) == CHOOSE k \in 1..NTypes : AtomTypes[k] = type

AtomOf(res, type) == atm_serial(res, TypeIndex(type))

-----------------------------------------------------------------------------
(* Structures (the target and the templates).  A structure is              *)
(*   [seq: its residues' codes, missing: the <<residue, atom type>> pairs  *)
(*    it has no atom for, shape: the scale of its coordinates].            *)

Shapes == {1, 2}

\* the coordinates of the atom of a type in the r-th residue of a structure
AtomXYZ(st, r, type) == <<3 * st.shape * r, 4 * TypeIndex(type), 0>>

\* Residue.num of the r-th residue of a structure (numbered from 1)
ResidueNum(r) == r

\* altmod_utils.get_modeller_atom: the atom of that type in the residue, or
\* None when the residue has none
get_modeller_atom(st, r, type) ==
    IF <<r, type>> \in st.missing THEN NoneObj ELSE <<r, type>>

\* altmod_utils.get_modeller_dist: the Euclidean distance of two atoms
get_modeller_dist(st, a, b) ==
    LET p == AtomXYZ(st, a[1], a[2])
        q == AtomXYZ(st, b[1], b[2])
    IN  ISqrt((p[1] - q[1]) * (p[1] - q[1]) + (p[2] - q[2]) * (p[2] - q[2])
              + (p[3] - q[3]) * (p[3] - q[3]))

-----------------------------------------------------------------------------
(* analyse_target_template_pairs: the sequence identity.                   *)

\* lines 169-176: the loop over zip(mod_aliseq, tar_aliseq); the result is
\* <<identities_count, matches_count>>
RECURSIVE identity_loop(_, _, _, _, _)
identity_loop(mod_aliseq, tar_aliseq, i, identities_count, matches_count) ==
    IF i > Min(Len(mod_aliseq), Len(tar_aliseq))
    THEN <<identities_count, matches_count>>
    ELSE IF mod_aliseq[i] # Gap /\ tar_aliseq[i] # Gap
         THEN identity_loop(mod_aliseq, tar_aliseq, i + 1,
                            IF mod_aliseq[i] = tar_aliseq[i]
                            THEN identities_count + 1 ELSE identities_count,
                            matches_count + 1)
         ELSE identity_loop(mod_aliseq, tar_aliseq, i + 1,
                            identities_count, matches_count)

\* the identity over all the columns of the alignment, gaps included
identity_counts_all_columns(mod_aliseq, tar_aliseq) ==
    <<identity_loop(mod_aliseq, tar_aliseq, 1, 0, 0)[1],
      Min(Len(mod_aliseq), Len(tar_aliseq))>>

identity_counts(mod_aliseq, tar_aliseq) ==
    identity_loop(mod_aliseq, tar_aliseq, 1, 0, 0)

\* the comparison of line 180 with <= for <
seqid_not_above_threshold(counts, threshold) ==
    counts[1] * 100 <= threshold * counts[2]

\* line 180: mod_tar_seqid < self.mod_tar_seqid_threshold, for
\* mod_tar_seqid = counts[1]/float(counts[2]) and the threshold in hundredths
seqid_below_threshold(counts, threshold) ==
    counts[1] * 100 < threshold * counts[2]

\* lines 185-194: the model-target residue correspondence, 0-based on both
\* sides
RECURSIVE mod_tar_res_loop(_, _, _, _, _, _)
mod_tar_res_loop(mod_aliseq, tar_aliseq, i, mod_c, tar_c, dict) ==
    IF i > Min(Len(mod_aliseq), Len(tar_aliseq)) THEN dict
    ELSE mod_tar_res_loop(mod_aliseq, tar_aliseq, i + 1,
             IF mod_aliseq[i] # Gap THEN mod_c + 1 ELSE mod_c,
             IF tar_aliseq[i] # Gap THEN tar_c + 1 ELSE tar_c,
             IF mod_aliseq[i] # Gap /\ tar_aliseq[i] # Gap
             THEN (mod_c :> tar_c) @@ dict ELSE dict)

build_mod_tar_res_dict(mod_aliseq, tar_aliseq) ==
    mod_tar_res_loop(mod_aliseq, tar_aliseq, 1, 0, 0, <<>>)

-----------------------------------------------------------------------------
(* analyse_target_template_pairs: one template.                            *)

\* lines 214-226: matches_dict, keyed by the model residue's index; the value
\* holds the model residue (index, code and the 0-based id the loop assigns
\* to it) and the template residue aligned to it
RECURSIVE matches_loop(_, _, _, _, _)
matches_loop(mod_row, tem_row, k, mod_c, dict) ==
    IF k > Len(mod_row) THEN dict
    ELSE matches_loop(mod_row, tem_row, k + 1,
             IF mod_row[k] # Gap THEN mod_c + 1 ELSE mod_c,
             IF mod_row[k] # Gap /\ tem_row[k] # Gap
             THEN (ResidueIndex(mod_row, k) :>
                     [mod_index |-> ResidueIndex(mod_row, k),
                      mod_code |-> mod_row[k],
                      mod_id |-> mod_c,
                      tem_index |-> ResidueIndex(tem_row, k),
                      tem_code |-> tem_row[k]]) @@ dict
             ELSE dict)

\* the column of a row that holds its r-th residue
ColumnOfResidue(row, r) ==
    CHOOSE k \in 1..Len(row) : row[k] # Gap /\ ResidueIndex(row, k) = r

\* matches_dict with the model residue's id counted over every column of the
\* alignment (mod_c advanced outside the test of line 223)
build_matches_dict_by_column(mod_row, tem_row) ==
    LET dict == matches_loop(mod_row, tem_row, 1, 0, <<>>)
    IN  [r \in DOMAIN dict |-> [dict[r] EXCEPT !.mod_id = ColumnOfResidue(mod_row, r) - 1]]

build_matches_dict(mod_row, tem_row) == matches_loop(mod_row, tem_row, 1, 0, <<>>)

\* the group with 23 given only when both atoms are main-chain atoms
restraint_group_both_main(atm_1_type, atm_2_type) ==
    IF atm_1_type = "CA" /\ atm_2_type = "CA" THEN "9"
    ELSE IF (atm_1_type = "N" /\ atm_2_type = "O")
            \/ (atm_1_type = "O" /\ atm_2_type = "N") THEN "10"
    ELSE IF atm_1_type \in main_chain_atoms /\ atm_2_type \in main_chain_atoms
         THEN "23"
    ELSE "26"

\* lines 279-288: the MODELLER code of the restraint group
restraint_group(atm_1_type, atm_2_type) ==
    IF atm_1_type = "CA" /\ atm_2_type = "CA" THEN "9"
    ELSE IF (atm_1_type = "N" /\ atm_2_type = "O")
            \/ (atm_1_type = "O" /\ atm_2_type = "N") THEN "10"
    ELSE IF atm_1_type \in main_chain_atoms \/ atm_2_type \in main_chain_atoms
         THEN "23"
    ELSE "26"

\* the difference taken the other way round
delta_d_reversed(grp_dn, grp_dt) == grp_dt - grp_dn

\* line 291: the delta_d value
delta_d(grp_dn, grp_dt) == grp_dn - grp_dt

\* the residues of a restraint with the checks made on its first residue
\* only: a second residue without an equivalent takes the first one's
restraint_residues_first_only(atm_1, atm_2, matches_dict, mod_tar_res_dict) ==
    IF atm_to_res_dict(atm_1) \notin DOMAIN matches_dict THEN NoneObj
    ELSE LET m1 == matches_dict[atm_to_res_dict(atm_1)]
             m2 == IF atm_to_res_dict(atm_2) \in DOMAIN matches_dict
                   THEN matches_dict[atm_to_res_dict(atm_2)] ELSE m1
         IN  IF m1.mod_id \notin DOMAIN mod_tar_res_dict THEN NoneObj
             ELSE [m1 |-> m1, m2 |-> m2,
                   tar_1 |-> mod_tar_res_dict[m1.mod_id] + 1,
                   tar_2 |-> IF m2.mod_id \in DOMAIN mod_tar_res_dict
                             THEN mod_tar_res_dict[m2.mod_id] + 1
                             ELSE mod_tar_res_dict[m1.mod_id] + 1]

\* lines 241-256: the residues of a restraint, or None (NoneObj) when it is skipped
\* (the KeyError of line 245, the two checks of lines 249-252)
restraint_residues(atm_1, atm_2, matches_dict, mod_tar_res_dict) ==
    IF atm_to_res_dict(atm_1) \notin DOMAIN matches_dict
       \/ atm_to_res_dict(atm_2) \notin DOMAIN matches_dict
    THEN NoneObj
    ELSE LET m1 == matches_dict[atm_to_res_dict(atm_1)]
             m2 == matches_dict[atm_to_res_dict(atm_2)]
         IN  IF m1.mod_id \notin DOMAIN mod_tar_res_dict THEN NoneObj
             ELSE IF m2.mod_id \notin DOMAIN mod_tar_res_dict THEN NoneObj
             ELSE [m1 |-> m1, m2 |-> m2,
                   \* modeller_tar_obj.residues[...] is indexed from 0
                   tar_1 |-> mod_tar_res_dict[m1.mod_id] + 1,
                   tar_2 |-> mod_tar_res_dict[m2.mod_id] + 1]

\* the distances with the template's atoms checked and the target's not
restraint_distances_template_only(atm_1_type, atm_2_type, rr, tem, tar) ==
    LET tem_atm_1 == get_modeller_atom(tem, rr.m1.tem_index, atm_1_type)
        tem_atm_2 == get_modeller_atom(tem, rr.m2.tem_index, atm_2_type)
    IN  IF ~(tem_atm_1 # NoneObj /\ tem_atm_2 # NoneObj) THEN NoneObj
        ELSE <<get_modeller_dist(tem, tem_atm_1, tem_atm_2),
               get_modeller_dist(tar, <<rr.tar_1, atm_1_type>>,
                                 <<rr.tar_2, atm_2_type>>)>>

\* lines 258-277: the two distances <<grp_dt, grp_dn>>, or None (NoneObj) when an atom
\* is absent from the template or from the target
restraint_distances(atm_1_type, atm_2_type, rr, tem, tar) ==
    LET tem_atm_1 == get_modeller_atom(tem, rr.m1.tem_index, atm_1_type)
        tem_atm_2 == get_modeller_atom(tem, rr.m2.tem_index, atm_2_type)
        tar_atm_1 == get_modeller_atom(tar, rr.tar_1, atm_1_type)
        tar_atm_2 == get_modeller_atom(tar, rr.tar_2, atm_2_type)
    IN  IF ~(tem_atm_1 # NoneObj /\ tem_atm_2 # NoneObj) THEN NoneObj
        ELSE IF ~(tar_atm_1 # NoneObj /\ tar_atm_2 # NoneObj) THEN NoneObj
        ELSE <<get_modeller_dist(tem, tem_atm_1, tem_atm_2),
               get_modeller_dist(tar, tar_atm_1, tar_atm_2)>>

\* lines 236-315: the row of one restraint, or None (NoneObj) when it is skipped
pair_results(atm_1, atm_2, matches_dict, mod_tar_res_dict, tem, tar) ==
    LET atm_1_type == atm_type_dict(atm_1)
        atm_2_type == atm_type_dict(atm_2)
        rr == restraint_residues(atm_1, atm_2, matches_dict, mod_tar_res_dict)
    IN  IF rr = NoneObj THEN NoneObj
        ELSE LET d == restraint_distances(atm_1_type, atm_2_type, rr, tem, tar)
             IN  IF d = NoneObj THEN NoneObj
                 ELSE [RST_GRP |-> restraint_group(atm_1_type, atm_2_type),
                       GRP_DN |-> d[2],
                       GRP_DT |-> d[1],
                       GRP_DD |-> delta_d(d[2], d[1]),
                       MOD_ATOM_TYPE_I |-> atm_1_type,
                       MOD_ATOM_TYPE_J |-> atm_2_type,
                       MOD_ATOM_INDEX_I |-> atm_1,
                       MOD_ATOM_INDEX_J |-> atm_2,
                       MOD_RES_PDB_ID_I |-> rr.m1.mod_index,
                       MOD_RES_PDB_ID_J |-> rr.m2.mod_index,
                       MOD_RES_NAME_I |-> rr.m1.mod_code,
                       MOD_RES_NAME_J |-> rr.m2.mod_code,
                       TAR_RES_PDB_ID_I |-> ResidueNum(rr.tar_1),
                       TAR_RES_PDB_ID_J |-> ResidueNum(rr.tar_2),
                       TAR_RES_NAME_I |-> tar.seq[rr.tar_1],
                       TAR_RES_NAME_J |-> tar.seq[rr.tar_2],
                       TEM_RES_PDB_ID_I |-> ResidueNum(rr.m1.tem_index),
                       TEM_RES_PDB_ID_J |-> ResidueNum(rr.m2.tem_index),
                       TEM_RES_NAME_I |-> rr.m1.tem_code,
                       TEM_RES_NAME_J |-> rr.m2.tem_code]

\* lines 234-315: results_list, the rows of the restraints of hddr_dict["all"]
\* in their order
RECURSIVE results_loop(_, _, _, _, _, _)
results_loop(hddr_all, i, matches_dict, mod_tar_res_dict, tem, tar) ==
    IF i > Len(hddr_all) THEN <<>>
    ELSE LET row == pair_results(hddr_all[i][1], hddr_all[i][2], matches_dict,
                                 mod_tar_res_dict, tem, tar)
         IN  (IF row = NoneObj THEN <<>> ELSE <<row>>)
             \o results_loop(hddr_all, i + 1, matches_dict, mod_tar_res_dict,
                             tem, tar)

results_list(hddr_all, mod_row, tem_row, mod_tar_res_dict, tem, tar) ==
    results_loop(hddr_all, 1, build_matches_dict(mod_row, tem_row),
                 mod_tar_res_dict, tem, tar)

\* line 328: the header of a table, the sorted keys of a row
column_names ==
    <<"GRP_DD", "GRP_DN", "GRP_DT", "MOD_ATOM_INDEX_I", "MOD_ATOM_INDEX_J",
      "MOD_ATOM_TYPE_I", "MOD_ATOM_TYPE_J", "MOD_RES_NAME_I", "MOD_RES_NAME_J",
      "MOD_RES_PDB_ID_I", "MOD_RES_PDB_ID_J", "RST_GRP", "TAR_RES_NAME_I",
      "TAR_RES_NAME_J", "TAR_RES_PDB_ID_I", "TAR_RES_PDB_ID_J",
      "TEM_RES_NAME_I", "TEM_RES_NAME_J", "TEM_RES_PDB_ID_I",
      "TEM_RES_PDB_ID_J">>

\* lines 325-332: the file written for a template: nothing at all when there
\* is no row, else the header and the rows
analysis_file(rows) ==
    [header |-> IF Len(rows) # 0 THEN column_names ELSE <<>>, rows |-> rows]

\* the file name without the template's ordinal: one name for every template
analysis_filename_no_ordinal(sequence, tem_idx) ==
    sequence \o "_tar_tem" \o ".csv"

\* line 325: "%s_tar_tem_%s.csv" % (self.sequence, tem_idx), tem_idx from 0
analysis_filename(sequence, tem_idx) ==
    sequence \o "_tar_tem_" \o ToString(tem_idx) \o ".csv"

-----------------------------------------------------------------------------
(* _get_template_filepaths.  A path is <<directory, file name>>; the file  *)
(* system is the set of the paths that are files.                          *)

isfile(files, path) == path \in files

listdir(files, dir) == {p[2] : p \in {q \in files : q[1] = dir}}

\* the file names with each name's ".pdb" form tried before the bare name
candidate_names_pdb_first(tem_seq_obj) ==
    <<tem_seq_obj.code \o ".pdb",
      tem_seq_obj.code,
      tem_seq_obj.atom_file[2] \o ".pdb",
      tem_seq_obj.atom_file[2]>>

\* lines 359-362: the file names tried in a directory, in their order
candidate_names(tem_seq_obj) ==
    <<tem_seq_obj.code,
      tem_seq_obj.code \o ".pdb",
      tem_seq_obj.atom_file[2],
      tem_seq_obj.atom_file[2] \o ".pdb">>

\* lines 359-366: the first name of the tuple found in a directory's content
\* (0 when none is)
RECURSIVE first_name_in(_, _, _)
first_name_in(names, content, k) ==
    IF k > Len(names) THEN 0
    ELSE IF names[k] \in content THEN k
    ELSE first_name_in(names, content, k + 1)

\* lines 357-366: the loop over the atom directories for one template; the
\* break of line 366 leaves the loop over the names only
RECURSIVE directories_loop(_, _, _, _)
directories_loop(files, dirs, d, tem_seq_obj) ==
    IF d > Len(dirs) THEN <<>>
    ELSE LET names == candidate_names(tem_seq_obj)
             k == first_name_in(names, listdir(files, dirs[d]), 1)
         IN  (IF k # 0 THEN <<(<<dirs[d], names[k]>>)>> ELSE <<>>)
             \o directories_loop(files, dirs, d + 1, tem_seq_obj)

\* lines 349-366: the paths appended for one sequence of the alignment
template_paths(files, dirs, tem_seq_obj) ==
    IF isfile(files, tem_seq_obj.atom_file) THEN <<tem_seq_obj.atom_file>>
    ELSE directories_loop(files, dirs, 1, tem_seq_obj)

\* lines 347-371: the loop over the sequences of the alignment; the result is
\* [found: FALSE when the IOError of line 368 is raised, paths: the list]
RECURSIVE template_filepaths_loop(_, _, _, _, _, _)
template_filepaths_loop(files, dirs, seqs, nknowns, i, acc) ==
    IF i > Len(seqs) THEN [found |-> TRUE, paths |-> acc]
    ELSE LET got == template_paths(files, dirs, seqs[i])
         IN  IF got = <<>> THEN [found |-> FALSE, paths |-> acc]
             ELSE IF i = nknowns THEN [found |-> TRUE, paths |-> acc \o got]
             ELSE template_filepaths_loop(files, dirs, seqs, nknowns, i + 1,
                                          acc \o got)

get_template_filepaths(files, dirs, seqs, nknowns) ==
    template_filepaths_loop(files, dirs, seqs, nknowns, 1, <<>>)

-----------------------------------------------------------------------------
(* The inputs the build reads: the alignment file and the restraints of    *)
(* the initial files, then the target structure, the result of salign, the *)
(* template structures and the file system.  Each is drawn from a union of *)
(* families; a family varies one part of the input over all its values up  *)
(* to the bounds and keeps the rest plain.                                 *)

\* the model sequence of n residues
ModelSeq(n) == [i \in 1..n |-> IF i % 2 = 1 THEN "A" ELSE "G"]

\* a template sequence of m residues
TemSeq(m) == [i \in 1..m |-> "A"]

Prepend(a, b, x) == [mod |-> <<a>> \o x.mod, tar |-> <<b>> \o x.tar]

\* every alignment of two sequences: two rows of one length that spell the
\* two sequences, with no column of two gaps
RECURSIVE Alignments(_, _)
Alignments(a, b) ==
    IF a = <<>> /\ b = <<>> THEN {[mod |-> <<>>, tar |-> <<>>]}
    ELSE (IF a # <<>> /\ b # <<>>
          THEN {Prepend(Head(a), Head(b), x) : x \in Alignments(Tail(a), Tail(b))}
          ELSE {})
         \cup (IF a # <<>>
               THEN {Prepend(Head(a), Gap, x) : x \in Alignments(Tail(a), b)}
               ELSE {})
         \cup (IF b # <<>>
               THEN {Prepend(Gap, Head(b), x) : x \in Alignments(a, Tail(b))}
               ELSE {})

\* the sequences of the alignment read_alignment returns: the knowns in their
\* order, then the model sequence
TemplateSeqObj(t) ==
    [code |-> "template_" \o ToString(t - 1),
     atom_file |-> <<"pdbs", "t" \o ToString(t - 1)>>]

AlnSeqObjs(nknowns) ==
    [i \in 1..(nknowns + 1) |->
        IF i <= nknowns THEN TemplateSeqObj(i)
        ELSE [code |-> "model_1", atom_file |-> <<"pdbs", "model_1">>]]

\* the restraints of a model of n residues: CA-CA between every two distinct
\* residues, N-O within every residue
StdPair(i, j) ==
    IF i = j THEN <<AtomOf(i, "N"), AtomOf(i, "O")>>
    ELSE <<AtomOf(i, "CA"), AtomOf(j, "CA")>>

StdRestraints(n) == [k \in 1..(n * n) |-> StdPair(((k - 1) \div n) + 1, ((k - 1) % n) + 1)]

\* one restraint of any two atom types between the first and the last residue
TypedRestraints(n) ==
    {<<(<<atm_serial(1, k1), atm_serial(n, k2)>>)>> :
        <<k1, k2>> \in {q \in (1..NTypes) \X (1..NTypes) : n > 1 \/ q[1] # q[2]}}

PlainAln(n, nknowns, mod_chains) ==
    [mod |-> ModelSeq(n), tem |-> [t \in 1..nknowns |-> TemSeq(n)],
     mod_chains |-> mod_chains, seqs |-> AlnSeqObjs(nknowns)]

\* the alignments of the model with one template, gaps on either side
GappedAlns1 ==
    {[mod |-> x.mod, tem |-> <<x.tar>>, mod_chains |-> 1, seqs |-> AlnSeqObjs(1)] :
        x \in UNION {Alignments(ModelSeq(n), TemSeq(m)) :
                        <<n, m>> \in (1..MaxLen) \X (0..MaxLen)}}

\* the alignments of the model with several templates: each of the first two
\* templates has a residue or a gap at every model residue
GappedAlnsN(nknowns) ==
    {[mod |-> ModelSeq(Len(rows[1])),
      tem |-> [t \in 1..nknowns |-> IF t <= Len(rows) THEN rows[t]
                                    ELSE TemSeq(Len(rows[1]))],
      mod_chains |-> 1,
      seqs |-> AlnSeqObjs(nknowns)] :
        rows \in UNION {[1..Min(nknowns, 2) -> [1..n -> {"A", Gap}]] :
                           n \in 1..MaxLen}}

\* what build_initial_files reads and produces: the alignment and the
\* restraints of the restraint file
GenInputs(nknowns) ==
    {[aln |-> PlainAln(n, nknowns, 1), hddr_all |-> StdRestraints(n)] : n \in 1..MaxLen}
    \cup {[aln |-> PlainAln(MaxLen, nknowns, 1), hddr_all |-> r] :
            r \in TypedRestraints(MaxLen)}
    \cup {[aln |-> a, hddr_all |-> StdRestraints(Len(Ungap(a.mod)))] :
            a \in IF nknowns = 1 THEN GappedAlns1 ELSE GappedAlnsN(nknowns)}
    \cup {[aln |-> PlainAln(1, nknowns, 2), hddr_all |-> StdRestraints(1)]}

\* what a call of build_initial_files made ahead of the build reads
PrepassInputs(nknowns) ==
    {[aln |-> PlainAln(n, nknowns, 1), hddr_all |-> StdRestraints(n)] : n \in 1..MaxLen}

IsPlain(aln) == \A k \in 1..Len(aln.mod) :
                    aln.mod[k] # Gap /\ \A t \in 1..Len(aln.tem) : aln.tem[t][k] # Gap

IsStd(g) == g.hddr_all = StdRestraints(Len(Ungap(g.aln.mod)))

DirName(d) == "dir" \o ToString(d)

\* the files of the templates, each at the path the alignment records
LiteralFiles(nknowns) == {TemplateSeqObj(t).atom_file : t \in 1..nknowns}

\* the places a template's file can be found in the atom directories
Placements(t, ndirs) ==
    {<<DirName(d), candidate_names(TemplateSeqObj(t))[k]>> :
        <<d, k>> \in (1..ndirs) \X (1..Len(candidate_names(TemplateSeqObj(t))))}

\* the file systems where one template's file is not at its recorded path but
\* at no, one or two places of the atom directories
FileSystems(nknowns, ndirs) ==
    {(LiteralFiles(nknowns) \ {TemplateSeqObj(t).atom_file}) \cup x :
        <<t, x>> \in UNION {{t} \X {y \in SUBSET Placements(t, ndirs) :
                                       Cardinality(y) <= 2} : t \in 1..nknowns}}

PlainStructure(seq) == [seq |-> seq, missing |-> {}, shape |-> 1]

BaseWorld(g, nknowns) ==
    [tar |-> PlainStructure(Ungap(g.aln.mod)),
     tar_chains |-> 1,
     ali |-> [mod |-> Ungap(g.aln.mod), tar |-> Ungap(g.aln.mod)],
     tems |-> [t \in 1..nknowns |-> PlainStructure(Ungap(g.aln.tem[t]))],
     dirs |-> <<DirName(1)>>,
     files |-> LiteralFiles(nknowns)]

\* every target sequence and every alignment salign can return for it
AlignmentWorlds(g, nknowns) ==
    {[BaseWorld(g, nknowns) EXCEPT !.tar.seq = Ungap(x.tar), !.ali = x] :
        x \in UNION {Alignments(Ungap(g.aln.mod), seq) :
                        seq \in UNION {[1..m -> Codes] : m \in 1..MaxLen}}}

\* the target without one of the model's residues, or with one more
IndelWorlds(g, nknowns) ==
    LET mod_seq == Ungap(g.aln.mod)
        n == Len(mod_seq)
        Without(i) == SubSeq(mod_seq, 1, i - 1) \o SubSeq(mod_seq, i + 1, n)
        GapAt(i) == [k \in 1..n |-> IF k = i THEN Gap ELSE mod_seq[k]]
    IN  {[BaseWorld(g, nknowns) EXCEPT !.tar.seq = Without(i),
                                       !.ali = [mod |-> mod_seq, tar |-> GapAt(i)]] :
            i \in {j \in 1..n : n > 1}}
        \cup {[BaseWorld(g, nknowns) EXCEPT
                  !.tar.seq = SubSeq(mod_seq, 1, i) \o <<"G">> \o SubSeq(mod_seq, i + 1, n),
                  !.ali = [mod |-> SubSeq(mod_seq, 1, i) \o <<Gap>> \o SubSeq(mod_seq, i + 1, n),
                           tar |-> SubSeq(mod_seq, 1, i) \o <<"G">> \o SubSeq(mod_seq, i + 1, n)]] :
                i \in {j \in 0..n : IsPlain(g.aln)}}

\* the coordinates of the target and of the first template at every scale
ShapeWorlds(g, nknowns) ==
    {[BaseWorld(g, nknowns) EXCEPT !.tar.shape = s[1], !.tems[1].shape = s[2]] :
        s \in Shapes \X Shapes}

\* a target of several chains
ChainWorlds(g, nknowns) ==
    {[BaseWorld(g, nknowns) EXCEPT !.tar_chains = c] : c \in 2..3}

\* the file systems, for the model of one residue
FileWorlds(g, nknowns) ==
    IF Len(g.aln.mod) # 1 THEN {} ELSE
    {[BaseWorld(g, nknowns) EXCEPT !.dirs = [d \in 1..ndirs |-> DirName(d)],
                                   !.files = fs] :
        <<ndirs, fs>> \in UNION {{nd} \X FileSystems(nknowns, nd) : nd \in 1..MaxDirs}}

\* one atom of the first restraint absent from the first template or from the
\* target
MissingWorlds(g, nknowns) ==
    LET r == g.hddr_all[1]
        a1 == <<atm_to_res_dict(r[1]), atm_type_dict(r[1])>>
        a2 == <<atm_to_res_dict(r[2]), atm_type_dict(r[2])>>
    IN  {[BaseWorld(g, nknowns) EXCEPT !.tar.missing = m[1], !.tems[1].missing = m[2]] :
            m \in {<<{a1}, {}>>, <<{a2}, {}>>, <<{}, {a1}>>, <<{}, {a2}>>}}

\* what analyse_target_template_pairs reads after build_initial_files read g
Worlds(g, nknowns) ==
    {BaseWorld(g, nknowns)}
    \cup (IF IsStd(g) THEN IndelWorlds(g, nknowns) ELSE {})
    \cup (IF IsPlain(g.aln) THEN MissingWorlds(g, nknowns) ELSE {})
    \cup (IF IsStd(g) /\ IsPlain(g.aln)
          THEN ShapeWorlds(g, nknowns) \cup ChainWorlds(g, nknowns)
               \cup FileWorlds(g, nknowns)
               \cup (IF nknowns = 1 THEN AlignmentWorlds(g, nknowns) ELSE {})
          ELSE {})

-----------------------------------------------------------------------------
(* The build object, the files and the build's position.                   *)
(*   self  the attributes of the Automodel_optimal_restraints object; the  *)
(*         four attributes of set_target_structure are set together, and   *)
(*         target_filepath = None stands for their absence                 *)
(*   inp   what the build has read so far (the alignment, then the rest)   *)
(*   disk  the restraint file and the analysis tables                      *)
(*   pc    "idle" while the caller configures the object, then the stage   *)
(*         of homcsr, then "done" or "failed"                              *)
(*   loc   the locals of analyse_target_template_pairs                     *)
(*   log   the calls and returns of the stages of homcsr, in their order   *)
(*   error the exception that ended the build, or "none"                   *)

NoError == [kind |-> "none", at |-> "none"]

NoLocals == [tem_idx |-> 0, counts |-> <<0, 0>>, mod_tar_res_dict |-> <<>>,
             template_filepaths |-> <<>>]

Init ==
    /\ \E nknowns \in 1..MaxTem :
          self = [knowns |-> nknowns,
                  sequence |-> "model_1",
                  target_filepath |-> None,
                  target_chain |-> None,
                  mod_tar_seqid_threshold |-> 0,
                  use_target_distances |-> FALSE,
                  has_custom_hddr_options |-> FALSE,
                  hddr_params_filepaths |-> <<>>,
                  sigma_col |-> None,
                  location_col |-> None,
                  atom_i_col |-> None,
                  atom_j_col |-> None,
                  has_initial_files |-> FALSE,
                  hddr_all |-> <<>>]
    /\ inp = [aln |-> NoneObj, world |-> NoneObj]
    /\ disk = [rsr |-> "absent", rsr_cols |-> NoneObj, tables |-> <<>>,
               generations |-> 0]
    /\ pc = "idle"
    /\ loc = NoLocals
    /\ log = <<>>
    /\ error = NoError

\* an exception leaves the build
Raise(kind, at) ==
    /\ pc' = "failed"
    /\ error' = [kind |-> kind, at |-> at]

-----------------------------------------------------------------------------
(* The caller's configuration calls.                                       *)

\* lines 66-69
set_target_structure(target_chain, mod_tar_seqid_threshold, use_target_distances) ==
    /\ pc = "idle"
    /\ self' = [self EXCEPT !.target_filepath = "target.pdb",
                            !.target_chain = target_chain,
                            !.mod_tar_seqid_threshold = mod_tar_seqid_threshold,
                            !.use_target_distances = use_target_distances]
    /\ UNCHANGED <<inp, disk, pc, loc, log, error>>

\* lines 109-123: the attributes after set_custom_hddr_options; the parent
\* method stores its arguments and notes that the options are set
custom_hddr_options(s) ==
    [s EXCEPT !.hddr_params_filepaths = [t \in 1..s.knowns |-> None],
              !.sigma_col = "GRP_DD",
              !.location_col = IF ~s.use_target_distances THEN "GRP_DT" ELSE "GRP_DN",
              !.atom_i_col = "MOD_ATOM_INDEX_I",
              !.atom_j_col = "MOD_ATOM_INDEX_J",
              !.has_custom_hddr_options = TRUE]

\* the caller's own call of set_custom_hddr_options; line 113 reads
\* self.use_target_distances, which only set_target_structure sets
set_custom_hddr_options ==
    /\ pc = "idle"
    /\ IF self.target_filepath = None
       THEN /\ Raise("AttributeError", "set_custom_hddr_options")
            /\ UNCHANGED <<self, inp, disk, loc, log>>
       ELSE /\ self' = custom_hddr_options(self)
            /\ UNCHANGED <<inp, disk, pc, loc, log, error>>

\* Automodel_custom_restraints.build_initial_files: the optimizer writes the
\* initial model and the restraint file, which are then parsed
initial_files_object(s, g) ==
    [s EXCEPT !.has_initial_files = TRUE, !.hddr_all = g.hddr_all]

\* disk.generations counts the runs of the optimizer's generation step
initial_files_disk(d) == [d EXCEPT !.rsr = "initial", !.generations = @ + 1]

\* the caller's own call of build_initial_files, before the build
build_initial_files ==
    /\ pc = "idle"
    /\ IF self.has_initial_files
       THEN /\ Raise("Exception", "build_initial_files")
            /\ UNCHANGED <<self, inp, disk, loc, log>>
       ELSE /\ \E g \in PrepassInputs(self.knowns) :
                  /\ self' = initial_files_object(self, g)
                  /\ inp' = [inp EXCEPT !.aln = g.aln]
            /\ disk' = initial_files_disk(disk)
            /\ UNCHANGED <<pc, loc, log, error>>

-----------------------------------------------------------------------------
(* homcsr, stage by stage.                                                 *)

Call(stage) == stage \o ":call"

Return(stage) == stage \o ":return"

\* homcsr without the check of lines 81-82
homcsr_check_unchecked ==
    /\ pc = "idle"
    /\ pc' = "generate"
    /\ UNCHANGED <<self, inp, disk, loc, log, error>>

\* lines 80-82: the check that set_target_structure was called
homcsr_check ==
    /\ pc = "idle"
    /\ IF self.target_filepath = None
       THEN Raise("ValueError", "homcsr")
       ELSE pc' = "generate" /\ UNCHANGED error
    /\ UNCHANGED <<self, inp, disk, loc, log>>

\* line 87 with a parent class that generates the files at every call
homcsr_build_initial_files_regenerates ==
    /\ pc = "generate"
    /\ \E g \in GenInputs(self.knowns) :
          /\ self' = initial_files_object(self, g)
          /\ inp' = [inp EXCEPT !.aln = g.aln]
    /\ disk' = initial_files_disk(disk)
    /\ log' = log \o <<Call("generate"), Return("generate")>>
    /\ pc' = "options"
    /\ UNCHANGED <<loc, error>>

\* line 87: self.build_initial_files(exit_stage); the parent class reports a
\* call made after the initial files were built as an error
homcsr_build_initial_files ==
    /\ pc = "generate"
    /\ IF self.has_initial_files
       THEN /\ Raise("Exception", "build_initial_files")
            /\ log' = Append(log, Call("generate"))
            /\ UNCHANGED <<self, inp, disk, loc>>
       ELSE /\ \E g \in GenInputs(self.knowns) :
                  /\ self' = initial_files_object(self, g)
                  /\ inp' = [inp EXCEPT !.aln = g.aln]
            /\ disk' = initial_files_disk(disk)
            /\ log' = log \o <<Call("generate"), Return("generate")>>
            /\ pc' = "options"
            /\ UNCHANGED <<loc, error>>

\* the default options applied whether or not the caller set the options
homcsr_default_options_always ==
    /\ pc = "options"
    /\ self' = custom_hddr_options(self)
    /\ log' = log \o <<Call("defaults"), Return("defaults")>>
    /\ pc' = "analyse"
    /\ UNCHANGED <<inp, disk, loc, error>>

\* lines 91-92: the default options, unless the caller set the options
homcsr_default_options ==
    /\ pc = "options"
    /\ IF ~self.has_custom_hddr_options
       THEN /\ self' = custom_hddr_options(self)
            /\ log' = log \o <<Call("defaults"), Return("defaults")>>
       ELSE UNCHANGED <<self, log>>
    /\ pc' = "analyse"
    /\ UNCHANGED <<inp, disk, loc, error>>

-----------------------------------------------------------------------------
(* analyse_target_template_pairs.                                          *)

\* the checks without the check of the target's chains (lines 149-151)
precheck_error_chains_unchecked(aln, w, target_chain, threshold, nknowns) ==
    IF aln.mod_chains > 1
    THEN [kind |-> "NotImplementedError", at |-> "model_chains"]
    ELSE IF identity_counts(w.ali.mod, w.ali.tar)[2] = 0
    THEN [kind |-> "ZeroDivisionError", at |-> "identity"]
    ELSE IF seqid_below_threshold(identity_counts(w.ali.mod, w.ali.tar), threshold)
    THEN [kind |-> "ValueError", at |-> "identity"]
    ELSE IF ~get_template_filepaths(w.files, w.dirs, aln.seqs, nknowns).found
    THEN [kind |-> "IOError", at |-> "template_filepaths"]
    ELSE NoError

\* lines 135-201, the checks made before the loop over the templates, in the
\* order of the code: the exception raised, or NoError
precheck_error(aln, w, target_chain, threshold, nknowns) ==
    IF aln.mod_chains > 1
    THEN [kind |-> "NotImplementedError", at |-> "model_chains"]
    ELSE IF w.tar_chains > 1 /\ target_chain = None
    THEN [kind |-> "ValueError", at |-> "target_chains"]
    ELSE IF identity_counts(w.ali.mod, w.ali.tar)[2] = 0
    THEN [kind |-> "ZeroDivisionError", at |-> "identity"]
    ELSE IF seqid_below_threshold(identity_counts(w.ali.mod, w.ali.tar), threshold)
    THEN [kind |-> "ValueError", at |-> "identity"]
    ELSE IF ~get_template_filepaths(w.files, w.dirs, aln.seqs, nknowns).found
    THEN [kind |-> "IOError", at |-> "template_filepaths"]
    ELSE NoError

\* what the call has read when it raises at a place, or passes the checks:
\* the target is read at line 148, after the check of the model's chains
world_read(w, at) ==
    IF at = "model_chains" THEN NoneObj ELSE w

\* the locals when the checks are passed or raise at a place
locals_at(aln, w, nknowns, at) ==
    \* lines 170-194 run after the checks of the chains
    IF at \in {"model_chains", "target_chains"} THEN NoLocals
    ELSE [tem_idx |-> 0,
          counts |-> identity_counts(w.ali.mod, w.ali.tar),
          mod_tar_res_dict |->
              IF at \in {"none", "template_filepaths"}
              THEN build_mod_tar_res_dict(w.ali.mod, w.ali.tar)
              ELSE <<>>,
          template_filepaths |->
              IF at = "none"
              THEN get_template_filepaths(w.files, w.dirs, aln.seqs, nknowns).paths
              ELSE <<>>]

\* the checks with their exception caught by homcsr: the build goes on to the
\* rebuild of the restraint file
analyse_prechecks_error_caught ==
    /\ pc = "analyse"
    /\ log' = Append(log, Call("analyse"))
    /\ \E w \in Worlds([aln |-> inp.aln, hddr_all |-> self.hddr_all], self.knowns) :
          LET e == precheck_error(inp.aln, w, self.target_chain,
                                  self.mod_tar_seqid_threshold, self.knowns)
          IN  /\ inp' = [inp EXCEPT !.world = world_read(w, e.at)]
              /\ loc' = locals_at(inp.aln, w, self.knowns, e.at)
              /\ IF e = NoError
                 THEN pc' = "templates" /\ UNCHANGED error
                 ELSE pc' = "rebuild" /\ error' = e
    /\ UNCHANGED <<self, disk>>

\* lines 135-201
analyse_prechecks ==
    /\ pc = "analyse"
    /\ log' = Append(log, Call("analyse"))
    /\ \E w \in Worlds([aln |-> inp.aln, hddr_all |-> self.hddr_all], self.knowns) :
          LET e == precheck_error(inp.aln, w, self.target_chain,
                                  self.mod_tar_seqid_threshold, self.knowns)
          IN  /\ inp' = [inp EXCEPT !.world = world_read(w, e.at)]
              /\ loc' = locals_at(inp.aln, w, self.knowns, e.at)
              /\ IF e = NoError
                 THEN pc' = "templates" /\ UNCHANGED error
                 ELSE Raise(e.kind, e.at)
    /\ UNCHANGED <<self, disk>>

\* lines 203-334, one turn of the loop over self.knowns
analyse_template ==
    /\ pc = "templates"
    /\ LET t == loc.tem_idx + 1
           rows == results_list(self.hddr_all, inp.aln.mod, inp.aln.tem[t],
                                loc.mod_tar_res_dict, inp.world.tems[t],
                                inp.world.tar)
           analysis_fn == analysis_filename(self.sequence, loc.tem_idx)
       IN  /\ disk' = [disk EXCEPT
                          !.tables = (analysis_fn :> analysis_file(rows)) @@ @]
           /\ self' = [self EXCEPT !.hddr_params_filepaths[t] = analysis_fn]
           /\ loc' = [loc EXCEPT !.tem_idx = t]
           /\ IF t = self.knowns
              THEN pc' = "rebuild" /\ log' = Append(log, Return("analyse"))
              ELSE UNCHANGED <<pc, log>>
    /\ UNCHANGED <<inp, error>>

-----------------------------------------------------------------------------
(* Automodel_custom_restraints.rebuild_restraints_file.                    *)

required_columns(s) == {s.atom_i_col, s.atom_j_col, s.sigma_col, s.location_col}

\* a table the Orchestrator can load: the file exists and its header has the
\* required columns
table_loads(s, d, path) ==
    /\ path \in DOMAIN d.tables
    /\ required_columns(s) \subseteq {d.tables[path].header[k] :
                                         k \in 1..Len(d.tables[path].header)}

\* line 98
rebuild_restraints_file ==
    /\ pc = "rebuild"
    /\ IF ~self.has_custom_hddr_options
       THEN /\ Raise("UsageError", "rebuild_restraints_file")
            /\ log' = Append(log, Call("rebuild"))
            /\ UNCHANGED disk
       ELSE IF \E t \in 1..self.knowns :
                  ~table_loads(self, disk, self.hddr_params_filepaths[t])
       THEN /\ Raise("ConfigurationError", "rebuild_restraints_file")
            /\ log' = Append(log, Call("rebuild"))
            /\ UNCHANGED disk
       ELSE /\ disk' = [disk EXCEPT !.rsr = "rebuilt",
                                    !.rsr_cols = [sigma |-> self.sigma_col,
                                                  location |-> self.location_col]]
            /\ log' = log \o <<Call("rebuild"), Return("rebuild")>>
            /\ pc' = "done"
            /\ UNCHANGED error
    /\ UNCHANGED <<self, inp, loc>>

-----------------------------------------------------------------------------

TargetChains == {None, "A"}

Next ==
    \/ \E c \in TargetChains, th \in Thresholds, u \in BOOLEAN :
          set_target_structure(c, th, u)
    \/ set_custom_hddr_options
    \/ build_initial_files
    \/ homcsr_check
    \/ homcsr_build_initial_files
    \/ homcsr_default_options
    \/ analyse_prechecks
    \/ analyse_template
    \/ rebuild_restraints_file

Spec == Init /\ [][Next]_vars

-----------------------------------------------------------------------------
(* Definitions the properties below are stated with.                       *)

IsPrefix(a, b) == Len(a) <= Len(b) /\ a = SubSeq(b, 1, Len(a))

\* the stages of a complete build, with or without the default options
StageOrder(with_defaults) ==
    <<Call("generate"), Return("generate")>>
    \o (IF with_defaults THEN <<Call("defaults"), Return("defaults")>> ELSE <<>>)
    \o <<Call("analyse"), Return("analyse"), Call("rebuild"), Return("rebuild")>>

TablesWritten == DOMAIN disk.tables

ColumnOf(row, r) == ColumnOfResidue(row, r)

\* the templates whose table is written, with the world they were analysed in
AnalysedTemplates ==
    {t \in 1..self.knowns : analysis_filename(self.sequence, t - 1) \in TablesWritten}

RowsOf(t) == disk.tables[analysis_filename(self.sequence, t - 1)].rows

AllRows == UNION {{RowsOf(t)[i] : i \in 1..Len(RowsOf(t))} : t \in AnalysedTemplates}

\* the columns of the model-target alignment with a residue on both sides
BothSides(ali) == {i \in 1..Len(ali.mod) : ali.mod[i] # Gap /\ ali.tar[i] # Gap}

\* (* C1 *) In every run of homcsr the stages run in the order initial-file
\* generation, default options (only when the caller had not set the options),
\* analysis, restraint rebuild, each at most once, and a stage is called only
\* after the one before it has returned: the record of calls and returns is
\* always a prefix of that order, and the default options are applied in a
\* step only when the options were not set before it.
C1_StageOrder ==
    /\ [](\E d \in BOOLEAN : IsPrefix(log, StageOrder(d)))
    /\ [][(Len(log') > Len(log) /\ log'[Len(log) + 1] = Call("defaults"))
              => ~self.has_custom_hddr_options]_vars
    /\ [][(pc = "options" /\ ~self.has_custom_hddr_options)
              => log' = log \o <<Call("defaults"), Return("defaults")>>]_vars

C1_Witness ==
    /\ pc = "done"
    /\ log = StageOrder(TRUE)

\* (* C2 *) A build started without set_target_structure fails with the usage
\* error of homcsr and runs no stage: while no target is set the build is in
\* no stage, no stage was called, no table is written and the restraint file
\* is not rebuilt; the error of homcsr's check is raised only then.
C2_NoTargetNoStage ==
    /\ self.target_filepath = None
          => /\ pc \in {"idle", "failed"}
             /\ log = <<>>
             /\ TablesWritten = {}
             /\ disk.rsr # "rebuilt"
    /\ error.at = "homcsr"
          => /\ error.kind = "ValueError"
             /\ self.target_filepath = None
             /\ pc = "failed"

C2_Witness ==
    /\ pc = "failed"
    /\ error.at = "homcsr"
    /\ log = <<>>

\* (* C3 *) The sequence identity is the number of columns with a residue on
\* both sides and the same code on both, over the number of columns with a
\* residue on both sides; a column with a gap counts in neither.
C3_Identity ==
    inp.world # NoneObj /\ error.at # "target_chains"
        => /\ loc.counts[1] = Cardinality({i \in BothSides(inp.world.ali) :
                                  inp.world.ali.mod[i] = inp.world.ali.tar[i]})
           /\ loc.counts[2] = Cardinality(BothSides(inp.world.ali))

C3_Witness ==
    /\ inp.world # NoneObj
    /\ loc.counts = <<1, 1>>
    /\ Len(inp.world.ali.mod) > Cardinality(BothSides(inp.world.ali)) + 1

\* the threshold test on the two counts of the alignment read
BelowThreshold(ali, threshold) ==
    Cardinality({i \in BothSides(ali) : ali.mod[i] = ali.tar[i]}) * 100
        < threshold * Cardinality(BothSides(ali))

\* (* C4 *) With identity fraction f and threshold t the analysis goes on
\* when f >= t, f = t included, and raises the error of the identity check
\* when f < t.
C4_Threshold ==
    (/\ inp.world # NoneObj
     /\ error.at # "target_chains"
     /\ BothSides(inp.world.ali) # {})
        => IF BelowThreshold(inp.world.ali, self.mod_tar_seqid_threshold)
           THEN pc = "failed" /\ error = [kind |-> "ValueError", at |-> "identity"]
           ELSE /\ error.at # "identity"
                /\ pc = "failed"
                      => error.at \in {"template_filepaths", "rebuild_restraints_file"}

C4_Witness ==
    /\ pc = "templates"
    /\ loc.counts = <<1, 2>>
    /\ self.mod_tar_seqid_threshold = 50

\* a template has no file: not at the recorded path, and under none of the
\* four names in any directory
Unresolvable(w, tem_seq_obj) ==
    /\ tem_seq_obj.atom_file \notin w.files
    /\ \A d \in 1..Len(w.dirs), k \in 1..Len(candidate_names(tem_seq_obj)) :
          <<w.dirs[d], candidate_names(tem_seq_obj)[k]>> \notin w.files

\* (* C5 *) A target of several chains with no chain designated makes the
\* analysis raise before any table is written; and whenever a check made
\* before the templates fails (a model of several chains, such a target, an
\* identity below the threshold, a template without a file) no table of any
\* template has been written.
C5_PrecheckBeforeTables ==
    /\ (inp.world # NoneObj /\ inp.world.tar_chains > 1 /\ self.target_chain = None)
          => pc = "failed" /\ error.at = "target_chains" /\ TablesWritten = {}
    /\ (inp.aln # NoneObj /\ inp.aln.mod_chains > 1) => TablesWritten = {}
    /\ (inp.world # NoneObj /\ BothSides(inp.world.ali) # {}
        /\ BelowThreshold(inp.world.ali, self.mod_tar_seqid_threshold))
          => TablesWritten = {}
    /\ (inp.world # NoneObj
        /\ \E t \in 1..self.knowns : Unresolvable(inp.world, inp.aln.seqs[t]))
          => TablesWritten = {}
    /\ error.at \in {"model_chains", "target_chains", "identity", "template_filepaths"}
          => TablesWritten = {}

C5_Witness ==
    /\ pc = "failed"
    /\ error.at = "target_chains"
    /\ inp.world.tar_chains = 3
    /\ self.target_chain = None

\* the model's residues, and where the two alignments put them
ModelResidues == 1..Len(Ungap(inp.aln.mod))

TemAligned(t, r) == inp.aln.tem[t][ColumnOf(inp.aln.mod, r)] # Gap

TemResidueOf(t, r) == ResidueIndex(inp.aln.tem[t], ColumnOf(inp.aln.mod, r))

TarAligned(r) == inp.world.ali.tar[ColumnOf(inp.world.ali.mod, r)] # Gap

TarResidueOf(r) == ResidueIndex(inp.world.ali.tar, ColumnOf(inp.world.ali.mod, r))

\* (* C6 *) For every template, a model residue with a gap opposite it in the
\* template's row or in the target's row has no row in that template's table,
\* neither as the first nor as the second residue of the restraint.
C6_GapSkipping ==
    \A t \in AnalysedTemplates : \A r \in ModelResidues :
        (~TemAligned(t, r) \/ ~TarAligned(r))
            => \A i \in 1..Len(RowsOf(t)) :
                  /\ atm_to_res_dict(RowsOf(t)[i].MOD_ATOM_INDEX_I) # r
                  /\ atm_to_res_dict(RowsOf(t)[i].MOD_ATOM_INDEX_J) # r

C6_Witness ==
    \E t \in AnalysedTemplates, u \in AnalysedTemplates :
        /\ \E r \in ModelResidues : ~TemAligned(t, r)
        /\ \E r \in ModelResidues : TemAligned(t, r) /\ ~TarAligned(r)
        /\ Len(RowsOf(u)) > 0

\* a restraint both of whose residues have a template and a target residue,
\* with the four atoms present
Qualifies(t, pair) ==
    LET r1 == atm_to_res_dict(pair[1])
        r2 == atm_to_res_dict(pair[2])
    IN  /\ TemAligned(t, r1) /\ TemAligned(t, r2)
        /\ TarAligned(r1) /\ TarAligned(r2)
        /\ <<TemResidueOf(t, r1), atm_type_dict(pair[1])>> \notin inp.world.tems[t].missing
        /\ <<TemResidueOf(t, r2), atm_type_dict(pair[2])>> \notin inp.world.tems[t].missing
        /\ <<TarResidueOf(r1), atm_type_dict(pair[1])>> \notin inp.world.tar.missing
        /\ <<TarResidueOf(r2), atm_type_dict(pair[2])>> \notin inp.world.tar.missing

\* (* C7 *) An atom type absent from a template or target residue skips that
\* restraint alone and raises nothing: every template's table has one row for
\* each restraint that has template and target residues and its four atoms,
\* and no other row, and the loop goes on to the next template.
C7_RowExactly ==
    /\ \A t \in AnalysedTemplates :
          LET Q == {i \in 1..Len(self.hddr_all) : Qualifies(t, self.hddr_all[i])}
          IN  /\ Len(RowsOf(t)) = Cardinality(Q)
              /\ {<<RowsOf(t)[i].MOD_ATOM_INDEX_I, RowsOf(t)[i].MOD_ATOM_INDEX_J>> :
                     i \in 1..Len(RowsOf(t))} = {self.hddr_all[i] : i \in Q}
    /\ (inp.world # NoneObj /\ pc \in {"templates", "rebuild", "done"})
          => AnalysedTemplates = 1..loc.tem_idx /\ error = NoError

C7_Witness ==
    \E t \in AnalysedTemplates :
        /\ inp.world.tems[t].missing \cup inp.world.tar.missing # {}
        /\ Len(RowsOf(t)) > 0
        /\ Len(RowsOf(t)) < Len(self.hddr_all)
        /\ pc = "rebuild"

\* (* C8 *) In every row the deviation GRP_DD is the row's target distance
\* GRP_DN minus its template distance GRP_DT, sign kept; GRP_DN is the
\* distance of the two atoms in the target and GRP_DT their distance in the
\* template.
C8_Deviation ==
    \A t \in AnalysedTemplates : \A i \in 1..Len(RowsOf(t)) :
        LET row == RowsOf(t)[i]
        IN  /\ row.GRP_DD = row.GRP_DN - row.GRP_DT
            /\ row.GRP_DN = get_modeller_dist(inp.world.tar,
                                <<row.TAR_RES_PDB_ID_I, row.MOD_ATOM_TYPE_I>>,
                                <<row.TAR_RES_PDB_ID_J, row.MOD_ATOM_TYPE_J>>)
            /\ row.GRP_DT = get_modeller_dist(inp.world.tems[t],
                                <<row.TEM_RES_PDB_ID_I, row.MOD_ATOM_TYPE_I>>,
                                <<row.TEM_RES_PDB_ID_J, row.MOD_ATOM_TYPE_J>>)

C8_Witness ==
    \E t \in AnalysedTemplates : \E i \in 1..Len(RowsOf(t)) :
        /\ RowsOf(t)[i].GRP_DD < 0
        /\ RowsOf(t)[i].GRP_DT > RowsOf(t)[i].GRP_DN

\* the tag of two atom type labels
ExpectedGroup(type_1, type_2) ==
    IF {type_1, type_2} = {"CA"} THEN "9"
    ELSE IF {type_1, type_2} = {"N", "O"} THEN "10"
    ELSE IF {type_1, type_2} \cap {"CA", "N", "C", "O", "OXT"} # {} THEN "23"
    ELSE "26"

\* (* C9 *) Every row has the one tag its two atom type labels give: 9 for
\* CA-CA, 10 for N-O in either order, 23 for any other pair with an atom of
\* CA, N, C, O, OXT, and 26 for a pair with none.
C9_GroupTag ==
    \A row \in AllRows :
        /\ row.RST_GRP = ExpectedGroup(row.MOD_ATOM_TYPE_I, row.MOD_ATOM_TYPE_J)
        /\ row.MOD_ATOM_TYPE_I = atm_type_dict(row.MOD_ATOM_INDEX_I)
        /\ row.MOD_ATOM_TYPE_J = atm_type_dict(row.MOD_ATOM_INDEX_J)

C9_Witness ==
    \E row \in AllRows :
        /\ row.RST_GRP = "23"
        /\ row.MOD_ATOM_TYPE_I \notin main_chain_atoms
        /\ row.MOD_ATOM_TYPE_J \in main_chain_atoms

\* (* C10 *) The model-target correspondence has an entry for a 0-based model
\* position exactly when that residue shares a column with a target residue
\* in the model-target alignment, and maps it to that target residue's
\* 0-based position; and in every template's table the target residue of a
\* row is the one the correspondence gives for the model residue's position
\* in the model sequence, wherever the model-template alignment has gaps.
C10_Correspondence ==
    /\ (inp.world # NoneObj /\ error.at \notin {"target_chains", "identity"})
          => /\ DOMAIN loc.mod_tar_res_dict = {r - 1 : r \in {q \in ModelResidues : TarAligned(q)}}
             /\ \A r \in {q \in ModelResidues : TarAligned(q)} :
                   loc.mod_tar_res_dict[r - 1] = TarResidueOf(r) - 1
    /\ \A row \in AllRows :
          /\ row.TAR_RES_PDB_ID_I
                = ResidueNum(TarResidueOf(atm_to_res_dict(row.MOD_ATOM_INDEX_I)))
          /\ row.TAR_RES_PDB_ID_J
                = ResidueNum(TarResidueOf(atm_to_res_dict(row.MOD_ATOM_INDEX_J)))

C10_Witness ==
    /\ inp.aln # NoneObj
    /\ \E k \in 1..Len(inp.aln.mod) : inp.aln.mod[k] = Gap
    /\ \E row \in AllRows : row.TAR_RES_PDB_ID_I # row.MOD_RES_PDB_ID_I

\* the name the table of the t-th template is to have (ordinals from 0)
TableName(t) == self.sequence \o "_tar_tem_" \o ToString(t - 1) \o ".csv"

\* analyse_target_template_pairs has returned normally
AnalysisReturned == Return("analyse") \in {log[i] : i \in 1..Len(log)}

\* (* C11 *) Once analyse_target_template_pairs has returned normally there
\* is exactly one table per template, the table of the t-th template is named
\* <sequence>_tar_tem_<t-1>.csv, and the list of the tables' paths has that
\* name at the template's place: no entry is None when the rebuild starts.
C11_OneTablePerTemplate ==
    AnalysisReturned
        => /\ TablesWritten = {TableName(t) : t \in 1..self.knowns}
           /\ Cardinality(TablesWritten) = self.knowns
           /\ self.hddr_params_filepaths = [t \in 1..self.knowns |-> TableName(t)]
           /\ \A t \in 1..self.knowns : self.hddr_params_filepaths[t] # None

C11_Witness ==
    /\ pc = "rebuild"
    /\ self.knowns = MaxTem
    /\ self.hddr_params_filepaths[2] = "model_1_tar_tem_1.csv"
    /\ "model_1_tar_tem_0.csv" \in TablesWritten

\* the four file names of a template: its code, the code with ".pdb", the
\* basename of the recorded path, the basename with ".pdb"
NamesOf(o) == <<o.code, o.code \o ".pdb", o.atom_file[2], o.atom_file[2] \o ".pdb">>

\* the candidates of a template directory by directory: the recorded path,
\* then the four names in the first directory, then in the second, ...
DirectoryMajor(w, o) ==
    <<o.atom_file>>
    \o [i \in 1..(Len(w.dirs) * Len(NamesOf(o))) |->
           <<w.dirs[((i - 1) \div Len(NamesOf(o))) + 1],
             NamesOf(o)[((i - 1) % Len(NamesOf(o))) + 1]>>]

\* the candidates of a template name by name: the recorded path, then the
\* first name in every directory, then the second name in every directory, ...
NameMajor(w, o) ==
    <<o.atom_file>>
    \o [i \in 1..(Len(w.dirs) * Len(NamesOf(o))) |->
           <<w.dirs[((i - 1) % Len(w.dirs)) + 1],
             NamesOf(o)[((i - 1) \div Len(w.dirs)) + 1]>>]

\* the first candidate of a list that is a file (NoneObj when none is)
FirstExisting(candidates, files) ==
    LET S == {i \in 1..Len(candidates) : candidates[i] \in files}
    IN  IF S = {} THEN NoneObj
        ELSE candidates[CHOOSE i \in S : \A j \in S : i <= j]

\* the paths of the result that are candidates of the t-th template
PathsOf(t) ==
    LET o == inp.aln.seqs[t]
        names == NamesOf(o)
        IsCandidate(p) == p = o.atom_file \/ \E k \in 1..Len(names) : p[2] = names[k]
    IN  SelectSeq(loc.template_filepaths, IsCandidate)

\* the file lookup was reached: the checks made before it have passed
LookupReached ==
    /\ inp.world # NoneObj
    /\ error.at \notin {"target_chains", "identity"}

\* (* C12 *) The file lookup fails, with IOError, exactly when some template
\* has no candidate that is a file; otherwise the first path it returns for
\* each template is the first candidate that is a file in this order: the
\* path recorded in the alignment, then, directory by directory in the order
\* of the search directories, the code, the code with ".pdb", the basename of
\* the recorded path and the basename with ".pdb".
C12_DirectoryMajorOrder ==
    LookupReached
        => /\ error.at = "template_filepaths"
                 <=> \E t \in 1..self.knowns : Unresolvable(inp.world, inp.aln.seqs[t])
           /\ error.at = "template_filepaths"
                 => pc = "failed" /\ error.kind = "IOError"
           /\ error.at # "template_filepaths"
                 => \A t \in 1..self.knowns :
                       /\ PathsOf(t) # <<>>
                       /\ PathsOf(t)[1] = FirstExisting(
                              DirectoryMajor(inp.world, inp.aln.seqs[t]),
                              inp.world.files)

C12_Witness ==
    /\ LookupReached
    /\ pc = "templates"
    /\ inp.aln.seqs[1].atom_file \notin inp.world.files
    /\ <<"dir1", "template_0.pdb">> \in inp.world.files
    /\ <<"dir2", "template_0">> \in inp.world.files
    /\ PathsOf(1)[1] = <<"dir1", "template_0.pdb">>

\* (* C12 *) as first stated: the first path returned for each template is
\* the first candidate that is a file in the order: the recorded path, the
\* code in each search directory, the code with ".pdb" in each, the basename
\* in each, the basename with ".pdb" in each.
C12_NameMajorOrder ==
    (LookupReached /\ error.at # "template_filepaths")
        => \A t \in 1..self.knowns :
              /\ PathsOf(t) # <<>>
              /\ PathsOf(t)[1] = FirstExisting(
                     NameMajor(inp.world, inp.aln.seqs[t]), inp.world.files)

\* the location column the last call of set_target_structure asks for
LocationAskedFor == IF self.use_target_distances THEN "GRP_DN" ELSE "GRP_DT"

\* (* C13 *) Whatever configuration calls were made before the build, the
\* rebuild of the restraint file starts, and ends, with GRP_DD as the sigma
\* column and with the location column the last call of set_target_structure
\* asks for: GRP_DN with use_target_distances=True, GRP_DT otherwise.
C13_LocationColumn ==
    /\ pc \in {"rebuild", "done"}
          => /\ self.sigma_col = "GRP_DD"
             /\ self.location_col = LocationAskedFor
    /\ pc = "done"
          => disk.rsr_cols = [sigma |-> "GRP_DD", location |-> LocationAskedFor]

\* the failures the kinds are to tell apart, by the place that raises them
NamedFailures ==
    {"homcsr", "target_chains", "identity", "template_filepaths", "model_chains"}

\* (* C14 *) The kind of a failure tells which of the five failures it is:
\* the missing set_target_structure call, the target of several chains with
\* no chain designated, the identity below the threshold, the template
\* without a file, the model of several chains.  Each has one kind, and the
\* kind of one is the kind of no other.
C14_DistinctKinds ==
    LET KindOf == [at \in NamedFailures |->
                     CASE at = "homcsr" -> "ValueError"
                       [] at = "target_chains" -> "ValueError"
                       [] at = "identity" -> "ValueError"
                       [] at = "template_filepaths" -> "IOError"
                       [] at = "model_chains" -> "NotImplementedError"]
    IN  (error.at \in NamedFailures /\ error.kind # "ZeroDivisionError")
            => /\ error.kind = KindOf[error.at]
               /\ \A other \in NamedFailures \ {error.at} : KindOf[other] # error.kind

Logged(entry) == entry \in {log[i] : i \in 1..Len(log)}

\* (* C16 *) The restraint file is rewritten only in a build whose analysis
\* has returned normally with the table of every template written.  When the
\* generation of the initial files, the default options or the analysis
\* raises, the build ends there: the rebuild is never called, the restraint
\* file is as the optimizer generated it (or absent when nothing was
\* generated), and no step follows the failure, so no stage runs again.
C16_RebuildOnlyAfterAnalysis ==
    /\ [](disk.rsr = "rebuilt"
              => /\ pc = "done"
                 /\ error = NoError
                 /\ Logged(Return("analyse"))
                 /\ TablesWritten = {TableName(t) : t \in 1..self.knowns})
    /\ [](Logged(Call("rebuild")) => Logged(Return("analyse")))
    /\ []((pc = "failed" /\ error.at # "rebuild_restraints_file")
              => /\ ~Logged(Call("rebuild"))
                 /\ disk.rsr_cols = NoneObj
                 /\ disk.rsr = IF disk.generations = 0 THEN "absent" ELSE "initial")
    /\ [][pc # "failed"]_vars

C16_Witness ==
    /\ pc = "failed"
    /\ error.at = "template_filepaths"
    /\ Logged(Call("analyse"))
    /\ ~Logged(Call("rebuild"))
    /\ disk.rsr = "initial"

HeaderOf(path) == {disk.tables[path].header[k] : k \in 1..Len(disk.tables[path].header)}

\* (* C17 *) Every table written has the columns the rebuild requires: the
\* two atom index columns, the sigma column GRP_DD and the configured
\* location column, also a table with no row.
C17_RequiredColumns ==
    \A path \in TablesWritten :
        {"MOD_ATOM_INDEX_I", "MOD_ATOM_INDEX_J", "GRP_DD", self.location_col}
            \subseteq HeaderOf(path)

\* (* C18 *) The list _get_template_filepaths returns has one path for each
\* template, in the templates' order: its t-th entry is a file of the t-th
\* template, whatever the search directories hold.
C18_OnePathPerTemplate ==
    (LookupReached /\ error.at # "template_filepaths")
        => /\ Len(loc.template_filepaths) = self.knowns
           /\ \A t \in 1..Min(self.knowns, Len(loc.template_filepaths)) :
                 /\ loc.template_filepaths[t] \in inp.world.files
                 /\ \E i \in 1..Len(DirectoryMajor(inp.world, inp.aln.seqs[t])) :
                       loc.template_filepaths[t]
                           = DirectoryMajor(inp.world, inp.aln.seqs[t])[i]

\* (* C19 *) The identity check ends for every model-target alignment, one
\* with no column with a residue on both sides included, either by accepting
\* or with the error of an identity below the threshold, and with no other
\* failure.
C19_IdentityTotal ==
    error.at = "identity" => error.kind = "ValueError"

====
